---- MODULE Spec2Model ----
(***************************************************************************)
(* A model of SecureS3Store (src/src/SecureS3Store.ts): the constructor's  *)
(* key-ring validation, put (validate, encrypt, frame, upload) and get     *)
(* (download, parse the frame, look the key up, decrypt, classify the      *)
(* failure).                                                               *)
(*                                                                         *)
(* Values.  A JavaScript string is a sequence of UTF-16 code units, a      *)
(* Buffer a sequence of bytes 0..255.  An optional value (undefined or a   *)
(* value) is the empty sequence or a one-element sequence.                 *)
(*                                                                         *)
(* The cipher (node:crypto, aes-256-gcm) is outside the repository; it is  *)
(* modelled by its contract: a length-preserving stream cipher keyed by    *)
(* (key, iv) and a 16-byte tag that is a collision-free function of        *)
(* (key, iv, ciphertext) over the keys, nonces and ciphertexts the bounds  *)
(* admit.                                                                  *)
(***************************************************************************)
EXTENDS Integers, Sequences, FiniteSets, TLC

VARIABLES store, backend, written, last, calls

vars == <<store, backend, written, last, calls>>

----------------------------------------------------------------------------
(* Bounds of the model *)

\* Number of distinct values randomBytes may return.
NumIvs == 2

\* Byte length of the long key identifier offered to the constructor.
LongKidLen == 256

\* A small explicit size limit offered as config.maxFileSize; data of up to
\* one byte more is offered to put.
SmallLimit == 2

\* Most entries a keys mapping offered to a running store has.
MaxKeys == 2

----------------------------------------------------------------------------
(* Program constants *)

ivLength == 16

authTagLength == 16

DefaultMaxFileSize == 100 * 1024 * 1024

\* Buffer.from([n]) keeps n modulo 256.
ByteModulus == 256

\* /^[0-9a-fA-F]{64}$/
HexKeyChars == 64

----------------------------------------------------------------------------
(* Strings and buffers *)

Repeat(c, n) == [i \in 1..n |-> c]

None == <<>>

Some(x) == <<x>>

IsSome(o) == Len(o) = 1

Get1(o) == o[1]

\* Buffer.prototype.slice(start, end) with 0-based, clamped offsets.
Slice(buf, start, end) ==
  LET s == IF start > Len(buf) THEN Len(buf) ELSE start
      e == IF end > Len(buf) THEN Len(buf) ELSE end
  IN IF e <= s THEN <<>> ELSE SubSeq(buf, s + 1, e)

\* The replacement character U+FFFD and its UTF-8 encoding.
ReplacementChar == 65533

ReplacementBytes == <<239, 191, 189>>

IsSurrogate(u) == u >= 55296 /\ u <= 57343

\* UTF-8 bytes of one code unit of the Basic Multilingual Plane; an unpaired
\* surrogate is encoded as U+FFFD (Buffer.from(string, 'utf8')).
Utf8OfUnit(u) ==
  IF u < 128 THEN <<u>>
  ELSE IF u < 2048 THEN <<192 + (u \div 64), 128 + (u % 64)>>
  ELSE IF IsSurrogate(u) THEN ReplacementBytes
  ELSE <<224 + (u \div 4096), 128 + ((u \div 64) % 64), 128 + (u % 64)>>

\* Buffer.from(s, 'utf8'): the encodings of the code units, concatenated.
RECURSIVE Utf8Encode(_)
Utf8Encode(s) ==
  IF Len(s) = 0 THEN <<>>
  ELSE IF Len(s) = 1 THEN Utf8OfUnit(s[1])
  ELSE Utf8Encode(SubSeq(s, 1, Len(s) \div 2))
         \o Utf8Encode(SubSeq(s, Len(s) \div 2 + 1, Len(s)))

IsCont(b) == b >= 128 /\ b <= 191

\* The code point of a three-byte sequence.
ThreeByte(b1, b2, b3) == (b1 - 224) * 4096 + (b2 - 128) * 64 + (b3 - 128)

\* Decoding byte by byte: one- to three-byte sequences are decoded, any other
\* byte yields U+FFFD.
RECURSIVE Utf8DecodeSeq(_)
Utf8DecodeSeq(b) ==
  IF b = <<>> THEN <<>>
  ELSE IF b[1] < 128 THEN <<b[1]>> \o Utf8DecodeSeq(Tail(b))
  ELSE IF b[1] >= 194 /\ b[1] <= 223 /\ Len(b) >= 2 /\ IsCont(b[2])
    THEN <<(b[1] - 192) * 64 + (b[2] - 128)>> \o Utf8DecodeSeq(SubSeq(b, 3, Len(b)))
  ELSE IF b[1] >= 224 /\ b[1] <= 239 /\ Len(b) >= 3 /\ IsCont(b[2]) /\ IsCont(b[3])
          /\ ThreeByte(b[1], b[2], b[3]) >= 2048
          /\ ~IsSurrogate(ThreeByte(b[1], b[2], b[3]))
    THEN <<ThreeByte(b[1], b[2], b[3])>> \o Utf8DecodeSeq(SubSeq(b, 4, Len(b)))
  ELSE <<ReplacementChar>> \o Utf8DecodeSeq(Tail(b))

\* buf.toString('utf8'); bytes that are all ASCII decode to themselves.
Utf8Decode(b) ==
  IF \A i \in 1..Len(b) : b[i] < 128 THEN b ELSE Utf8DecodeSeq(b)

IsHexChar(c) == (c >= 48 /\ c <= 57) \/ (c >= 65 /\ c <= 70) \/ (c >= 97 /\ c <= 102)

HexVal(c) == IF c <= 57 THEN c - 48 ELSE IF c <= 70 THEN c - 55 ELSE c - 87

\* /^[0-9a-fA-F]{64}$/.test(secretKey)
IsHexKey(s) == Len(s) = HexKeyChars /\ \A i \in 1..Len(s) : IsHexChar(s[i])

\* Buffer.from(secretKey, 'hex') on a string of hex digits.
HexDecode(s) == [i \in 1..(Len(s) \div 2) |-> 16 * HexVal(s[2 * i - 1]) + HexVal(s[2 * i])]

----------------------------------------------------------------------------
(* Errors and outcomes *)

\* An Error object: its class name, the fixed text of its message, the values
\* interpolated into the message, and the message of the error it wraps.
Err(name, text, detail, cause) ==
  [name |-> name, text |-> text, detail |-> detail, cause |-> cause]

NoError == Err("", "", <<>>, "")

ValidationError(text, detail) == Err("ValidationError", text, detail, "")

S3Error(text, cause) == Err("S3Error", text, <<>>, cause)

DecryptionError(text, detail) == Err("DecryptionError", text, detail, "")

NotFoundError(text, detail) == Err("NotFoundError", text, detail, "")

Resolved(v) == [kind |-> "resolved", value |-> v, error |-> NoError]

Rejected(e) == [kind |-> "rejected", value |-> <<>>, error |-> e]

----------------------------------------------------------------------------
(* Key identifiers and key material offered to the constructor *)

\* "v1"
V1 == <<118, 49>>

\* "v2"
V2 == <<118, 50>>

\* "é1": two code units, three UTF-8 bytes
KidAccent == <<233, 49>>

\* a single unpaired high surrogate
KidSurrogate == <<55296>>

\* "k" repeated
KidLong == Repeat(107, LongKidLen)

\* ""
KidEmpty == <<>>

\* "toString", a property every object literal inherits
KidToString == <<116, 111, 83, 116, 114, 105, 110, 103>>

\* Property names found on Object.prototype.
ObjectPrototypeProps == {KidToString}

\* 'a' repeated 64 times
HexK1 == Repeat(97, HexKeyChars)

\* 'B' repeated 64 times
HexK2 == Repeat(66, HexKeyChars)

\* 62 hex digits: 31 bytes
HexShort == Repeat(97, HexKeyChars - 2)

\* 66 hex digits: 33 bytes
HexLong == Repeat(97, HexKeyChars + 2)

\* 64 characters that are not hex digits
HexBad == Repeat(103, HexKeyChars)

\* All mappings from at most n of the names to the given strings.
KeyMaps(names, strings, n) ==
  UNION {[d -> strings] : d \in {x \in SUBSET names : Cardinality(x) <= n}}

----------------------------------------------------------------------------
(* The constructor *)

\* config.keys[name], truthy or not: an own property is truthy when its string
\* is non-empty, an inherited one (a function of Object.prototype) always is.
KeysPropertyTruthy(keys, name) ==
  IF name \in DOMAIN keys THEN keys[name] /= <<>>
  ELSE name \in ObjectPrototypeProps

\* config.maxFileSize || 100 * 1024 * 1024
EffectiveMaxFileSize(maxFileSize) ==
  IF IsSome(maxFileSize) /\ Get1(maxFileSize) /= 0
    THEN Get1(maxFileSize) ELSE DefaultMaxFileSize

\* The kid the for-in loop rejects; enumeration order is not modelled.
FirstBadKid(keys) == CHOOSE k \in DOMAIN keys : ~IsHexKey(keys[k])

\* new SecureS3Store(config): the instance, or the error thrown.
Construct(config) ==
  IF ~IsSome(config.keys) \/ DOMAIN Get1(config.keys) = {}
    THEN [ok |-> FALSE, store |-> None,
          error |-> ValidationError("At least one key must be provided in the keys configuration.", <<>>)]
  ELSE IF ~IsSome(config.primaryKey) \/ Get1(config.primaryKey) = <<>>
          \/ ~KeysPropertyTruthy(Get1(config.keys), Get1(config.primaryKey))
    THEN [ok |-> FALSE, store |-> None,
          error |-> ValidationError("The primaryKey must be a valid key identifier present in the keys configuration.", <<>>)]
  ELSE IF \E k \in DOMAIN Get1(config.keys) : ~IsHexKey(Get1(config.keys)[k])
    THEN [ok |-> FALSE, store |-> None,
          error |-> ValidationError("Invalid secretKey for KID: Must be a 64-character hex string.",
                                    FirstBadKid(Get1(config.keys)))]
  ELSE [ok |-> TRUE,
        store |-> Some([config |-> config,
                        keys |-> [k \in DOMAIN Get1(config.keys) |-> HexDecode(Get1(config.keys)[k])],
                        primaryKey |-> Get1(config.primaryKey),
                        maxFileSize |-> EffectiveMaxFileSize(config.maxFileSize)]),
        error |-> NoError]

----------------------------------------------------------------------------
(* The cipher: createCipheriv / createDecipheriv with aes-256-gcm *)

RECURSIVE WeightedSum(_, _, _)
WeightedSum(s, i, n) ==
  IF i > n THEN 0 ELSE i * s[i] + WeightedSum(s, i + 1, n)

\* A one-byte digest of a key or a nonce, distinct for the distinct keys and
\* nonces of the model.
Mix(s) == WeightedSum(s, 1, Len(s)) % 251

\* Byte i of a key stream that starts at seed.
KeyStream(seed, i) == (seed + i) % ByteModulus

\* The start of the key stream of (key, iv).
StreamSeed(key, iv) == Mix(key) + Mix(iv)

\* cipher.update(data) ++ cipher.final(): as long as the plaintext.
GcmEncrypt(key, iv, plaintext) ==
  LET seed == StreamSeed(key, iv) IN
  [i \in 1..Len(plaintext) |-> (plaintext[i] + KeyStream(seed, i)) % ByteModulus]

\* decipher.update(encrypted): the inverse of GcmEncrypt.
GcmDecrypt(key, iv, ciphertext) ==
  LET seed == StreamSeed(key, iv) IN
  [i \in 1..Len(ciphertext) |->
     (ciphertext[i] + ByteModulus - KeyStream(seed, i)) % ByteModulus]

\* cipher.getAuthTag(): 16 bytes binding the key, the nonce and the ciphertext.
GcmTag(key, iv, ciphertext) ==
  LET keyMix == Mix(key)
      ivMix == Mix(iv) IN
  [i \in 1..authTagLength |->
     IF i = 1 THEN keyMix
     ELSE IF i = 2 THEN ivMix
     ELSE IF i = 3 THEN Len(iv) % ByteModulus
     ELSE IF i = 4 THEN Len(ciphertext) % ByteModulus
     ELSE IF i - 4 <= Len(ciphertext) THEN ciphertext[i - 4] ELSE 0]

\* Tag lengths decipher.setAuthTag accepts for GCM.
ValidTagLengths == {4, 8, 12, 13, 14, 15, 16}

\* decipher.final() succeeds when the given tag is the computed tag, cut to
\* the given tag's length.
TagVerifies(key, iv, ciphertext, tag) ==
  tag = SubSeq(GcmTag(key, iv, ciphertext), 1, Len(tag))

\* Values randomBytes(16) may return.
Ivs == {Repeat(b, ivLength) : b \in 1..NumIvs}

----------------------------------------------------------------------------
(* parsePath and validateInput *)

Slash == 47

\* path.split('/')
RECURSIVE Split(_, _)
Split(s, cur) ==
  IF s = <<>> THEN <<cur>>
  ELSE IF Head(s) = Slash THEN <<cur>> \o Split(Tail(s), <<>>)
  ELSE Split(Tail(s), Append(cur, Head(s)))

\* parts.join('/')
RECURSIVE Join(_)
Join(parts) ==
  IF parts = <<>> THEN <<>>
  ELSE IF Len(parts) = 1 THEN parts[1]
  ELSE parts[1] \o <<Slash>> \o Join(Tail(parts))

\* A parsePath that keeps only the text between the first and the second '/'.
parsePath_SecondPart(path) ==
  IF ~IsSome(path) \/ Get1(path) = <<>>
    THEN [ok |-> FALSE, bucket |-> <<>>, key |-> <<>>,
          error |-> ValidationError("Path must be a non-empty string.", <<>>)]
  ELSE LET parts == Split(Get1(path), <<>>) IN
    IF Len(parts) < 2
      THEN [ok |-> FALSE, bucket |-> <<>>, key |-> <<>>,
            error |-> ValidationError("Invalid path format. Must be bucket-name/key.", <<>>)]
    ELSE IF parts[1] = <<>> \/ parts[2] = <<>>
      THEN [ok |-> FALSE, bucket |-> <<>>, key |-> <<>>,
            error |-> ValidationError("Invalid path format. Bucket and key must not be empty.", <<>>)]
    ELSE [ok |-> TRUE, bucket |-> parts[1], key |-> parts[2], error |-> NoError]

\* SecureS3Store.parsePath: the bucket and key, or the ValidationError thrown.
\* A path that is no string, or is null or undefined, is None.
parsePath(path) ==
  IF ~IsSome(path) \/ Get1(path) = <<>>
    THEN [ok |-> FALSE, bucket |-> <<>>, key |-> <<>>,
          error |-> ValidationError("Path must be a non-empty string.", <<>>)]
  ELSE LET parts == Split(Get1(path), <<>>) IN
    IF Len(parts) < 2
      THEN [ok |-> FALSE, bucket |-> <<>>, key |-> <<>>,
            error |-> ValidationError("Invalid path format. Must be bucket-name/key.", <<>>)]
    ELSE IF parts[1] = <<>> \/ Join(Tail(parts)) = <<>>
      THEN [ok |-> FALSE, bucket |-> <<>>, key |-> <<>>,
            error |-> ValidationError("Invalid path format. Bucket and key must not be empty.", <<>>)]
    ELSE [ok |-> TRUE, bucket |-> parts[1], key |-> Join(Tail(parts)), error |-> NoError]

\* ".enc"
EncSuffix == <<46, 101, 110, 99>>

\* Every path of a bucket addresses the one object "k.enc".
ObjectOf_OneObject(parsed) == <<parsed.bucket, <<107>> \o EncSuffix>>

\* The backend object a parsed path addresses: Bucket, and Key with ".enc".
ObjectOf(parsed) == <<parsed.bucket, parsed.key \o EncSuffix>>

\* Buffer.isBuffer(data) ? data : Buffer.from(data, 'utf8')
ToBuffer(data) ==
  IF data.isBuffer THEN data.content ELSE Utf8Encode(data.content)

\* A validation that lets empty data through.
validateInput_NoEmptyCheck(dataBuffer, maxFileSize) ==
  IF Len(dataBuffer) > maxFileSize
    THEN ValidationError("File size of bytes exceeds maximum limit of bytes",
                         <<Len(dataBuffer), maxFileSize>>)
  ELSE NoError

\* validateInput: the ValidationError thrown, or NoError.
validateInput(dataBuffer, maxFileSize) ==
  IF Len(dataBuffer) = 0
    THEN ValidationError("Input data cannot be null or empty", <<>>)
  ELSE IF Len(dataBuffer) > maxFileSize
    THEN ValidationError("File size of bytes exceeds maximum limit of bytes",
                         <<Len(dataBuffer), maxFileSize>>)
  ELSE NoError

----------------------------------------------------------------------------
(* put *)

\* A lookup that ignores the kid and always takes the primary key.
KeyOf_Primary(st, kid) ==
  IF st.primaryKey \in DOMAIN st.keys THEN Some(st.keys[st.primaryKey]) ELSE None

\* this.keys.get(kid) on the store's Map: no inherited properties.
KeyOf(st, kid) == IF kid \in DOMAIN st.keys THEN Some(st.keys[kid]) ELSE None

\* Buffer.concat([kidLength, kid, iv, authTag, encrypted])
Envelope(primaryKey, secretKey, iv, dataBuffer) ==
  LET kid == Utf8Encode(primaryKey)
      kidLength == <<Len(kid) % ByteModulus>>
      encrypted == GcmEncrypt(secretKey, iv, dataBuffer)
      authTag == GcmTag(secretKey, iv, encrypted)
  IN kidLength \o kid \o iv \o authTag \o encrypted

\* put up to the request: the error thrown before anything is sent, or the
\* object addressed and the body to upload; cipher tells whether createCipheriv
\* was called.
PutPrepare(st, path, data, iv) ==
  LET parsed == parsePath(path)
      dataBuffer == ToBuffer(data)
      invalid == validateInput(dataBuffer, st.maxFileSize)
      secretKey == KeyOf(st, st.primaryKey)
  IN IF ~parsed.ok
       THEN [ok |-> FALSE, cipher |-> FALSE, error |-> parsed.error,
             object |-> <<>>, body |-> <<>>]
     ELSE IF invalid /= NoError
       THEN [ok |-> FALSE, cipher |-> FALSE, error |-> invalid,
             object |-> <<>>, body |-> <<>>]
     ELSE IF ~IsSome(secretKey)
       THEN [ok |-> FALSE, cipher |-> TRUE,
             error |-> Err("TypeError", "The key argument must be of type string or an instance of Buffer. Received undefined", <<>>, ""),
             object |-> <<>>, body |-> <<>>]
     ELSE [ok |-> TRUE, cipher |-> TRUE, error |-> NoError, object |-> ObjectOf(parsed),
           body |-> Envelope(st.primaryKey, Get1(secretKey), iv, dataBuffer)]

\* A put that swallows the failure of its request.
PutFinish_Swallow(sendError) == Resolved(<<>>)

\* put after the request: resolved, or the backend's failure wrapped.
PutFinish(sendError) ==
  IF IsSome(sendError)
    THEN Rejected(S3Error("S3 PutObject failed: ", Get1(sendError).text))
  ELSE Resolved(<<>>)

----------------------------------------------------------------------------
(* get *)

\* encryptedData[0]; for an empty body it is undefined, and the offsets
\* computed from it (NaN) slice as 0.
KidLengthOf(encryptedData) ==
  IF encryptedData = <<>> THEN 0 ELSE encryptedData[1]

\* const ivOffset = 1 + kidLength
IvOffsetOf(encryptedData) ==
  IF encryptedData = <<>> THEN 0 ELSE 1 + KidLengthOf(encryptedData)

\* A get that returns what it decrypted whether or not the tag verifies.
GetDecode_NoVerify(st, encryptedData) ==
  LET kid == Utf8Decode(Slice(encryptedData, 1, 1 + KidLengthOf(encryptedData)))
      secretKey == KeyOf(st, kid)
      ivOffset == IvOffsetOf(encryptedData)
      authTagOffset == ivOffset + ivLength
      encryptedOffset == authTagOffset + authTagLength
      iv == Slice(encryptedData, ivOffset, authTagOffset)
      encrypted == Slice(encryptedData, encryptedOffset, Len(encryptedData))
  IN IF ~IsSome(secretKey)
       THEN [threw |-> TRUE, value |-> <<>>, cipher |-> FALSE,
             error |-> DecryptionError("No secret key found for KID: ", kid)]
     ELSE IF Len(iv) = 0
       THEN [threw |-> TRUE, value |-> <<>>, cipher |-> TRUE,
             error |-> Err("TypeError", "Invalid initialization vector", <<>>, "")]
     ELSE [threw |-> FALSE, value |-> GcmDecrypt(Get1(secretKey), iv, encrypted),
           cipher |-> TRUE, error |-> NoError]

\* A get that takes only bodies whose kid is the store's primaryKey.
GetDecode_PrimaryOnly(st, encryptedData) ==
  LET kid == Utf8Decode(Slice(encryptedData, 1, 1 + KidLengthOf(encryptedData)))
  IN IF kid /= st.primaryKey
       THEN [threw |-> TRUE, value |-> <<>>, cipher |-> FALSE,
             error |-> DecryptionError("No secret key found for KID: ", kid)]
     ELSE GetDecode_NoVerify(st, encryptedData)

\* The try block of get from streamToBuffer's result on: the plaintext
\* returned, or the error thrown inside the block; cipher tells whether
\* createDecipheriv was called.
GetDecode(st, encryptedData) ==
  LET kid == Utf8Decode(Slice(encryptedData, 1, 1 + KidLengthOf(encryptedData)))
      secretKey == KeyOf(st, kid)
      ivOffset == IvOffsetOf(encryptedData)
      authTagOffset == ivOffset + ivLength
      encryptedOffset == authTagOffset + authTagLength
      iv == Slice(encryptedData, ivOffset, authTagOffset)
      authTag == Slice(encryptedData, authTagOffset, encryptedOffset)
      encrypted == Slice(encryptedData, encryptedOffset, Len(encryptedData))
  IN IF ~IsSome(secretKey)
       THEN [threw |-> TRUE, value |-> <<>>, cipher |-> FALSE,
             error |-> DecryptionError("No secret key found for KID: ", kid)]
     ELSE IF Len(iv) = 0
       THEN [threw |-> TRUE, value |-> <<>>, cipher |-> TRUE,
             error |-> Err("TypeError", "Invalid initialization vector", <<>>, "")]
     ELSE IF Len(authTag) \notin ValidTagLengths
       THEN [threw |-> TRUE, value |-> <<>>, cipher |-> TRUE,
             error |-> Err("TypeError", "Invalid authentication tag length", <<Len(authTag)>>, "")]
     ELSE IF ~TagVerifies(Get1(secretKey), iv, encrypted, authTag)
       THEN [threw |-> TRUE, value |-> <<>>, cipher |-> TRUE,
             error |-> Err("Error", "Unsupported state or unable to authenticate data", <<>>, "")]
     ELSE [threw |-> FALSE, value |-> GcmDecrypt(Get1(secretKey), iv, encrypted),
           cipher |-> TRUE, error |-> NoError]

\* A catch block that looks for a DecryptionError first and has no rule for
\* NoSuchKey.
GetCatch_NoNotFound(path, error) ==
  IF error.name = "DecryptionError" THEN error
  ELSE S3Error("S3 GetObject failed: ", error.text)

\* A catch block that wraps every error, a DecryptionError included.
GetCatch_WrapAll(path, error) ==
  IF error.name = "NoSuchKey"
    THEN NotFoundError("Object not found at path: ", Get1(path))
  ELSE S3Error("S3 GetObject failed: ", error.text)

\* The catch block of get.
GetCatch(path, error) ==
  IF error.name = "NoSuchKey"
    THEN NotFoundError("Object not found at path: ", Get1(path))
  ELSE IF error.name = "DecryptionError" THEN error
  ELSE S3Error("S3 GetObject failed: ", error.text)

\* What the backend answers to a GetObject request.
ErrorResponse(e) == [kind |-> "error", error |-> e, body |-> <<>>]

NoBodyResponse == [kind |-> "noBody", error |-> NoError, body |-> <<>>]

BodyResponse(b) == [kind |-> "body", error |-> NoError, body |-> b]

StreamErrorResponse(e) == [kind |-> "streamError", error |-> e, body |-> <<>>]

NoResponse == [kind |-> "none", error |-> NoError, body |-> <<>>]

\* The try block of get: what it returns or throws for a backend response.
GetTry(st, path, response) ==
  IF response.kind = "error" \/ response.kind = "streamError"
    THEN [threw |-> TRUE, value |-> <<>>, cipher |-> FALSE, error |-> response.error]
  ELSE IF response.kind = "noBody"
    THEN [threw |-> TRUE, value |-> <<>>, cipher |-> FALSE,
          error |-> NotFoundError("Object not found at path: ", Get1(path))]
  ELSE GetDecode(st, response.body)

\* get(path) given the backend's response to its request.
GetOutcome(st, path, response) ==
  LET parsed == parsePath(path)
      tried == GetTry(st, path, response)
  IN IF ~parsed.ok THEN Rejected(parsed.error)
     ELSE IF tried.threw THEN Rejected(GetCatch(path, tried.error))
     ELSE Resolved(tried.value)

----------------------------------------------------------------------------
(* The backend: an untrusted object store *)

GenericFailure == Err("Error", "S3 Error", <<>>, "")

NoSuchKey == Err("NoSuchKey", "The specified key does not exist.", <<>>, "")

\* byte with bit number bit (0 = least significant) inverted
FlipBit(byte, bit) ==
  IF (byte \div (2 ^ bit)) % 2 = 1 THEN byte - 2 ^ bit ELSE byte + 2 ^ bit

\* body with one bit inverted in the byte at 0-based offset pos
FlipAt(body, pos, bit) == [body EXCEPT ![pos + 1] = FlipBit(@, bit)]

\* The regions of an envelope written with a kid of kidLen bytes, as
\* <<first offset, end offset>> (0-based, end exclusive).
KidRegion(kidLen) == <<1, 1 + kidLen>>

NonceRegion(kidLen) == <<1 + kidLen, 1 + kidLen + ivLength>>

TagRegion(kidLen) == <<1 + kidLen + ivLength, 1 + kidLen + ivLength + authTagLength>>

CiphertextRegion(kidLen, bodyLen) == <<1 + kidLen + ivLength + authTagLength, bodyLen>>

\* Single-bit flips offered in a region: the lowest bit of its first byte and
\* the highest bit of its last byte.
FlipsIn(body, region) ==
  IF region[2] <= region[1] THEN {}
  ELSE {FlipAt(body, region[1], 0), FlipAt(body, region[2] - 1, 7)}

\* The lowest bit of a region's first byte inverted.
FirstFlipIn(body, region) ==
  IF region[2] <= region[1] THEN {} ELSE {FlipAt(body, region[1], 0)}

\* Bodies a backend may return in place of a stored envelope whose kid field
\* is kidLen bytes long: bit flips in every region, and truncations.
Tampered(body, kidLen) ==
  FlipsIn(body, <<0, 1>>)
    \cup FirstFlipIn(body, KidRegion(kidLen))
    \cup FirstFlipIn(body, NonceRegion(kidLen))
    \cup FirstFlipIn(body, TagRegion(kidLen))
    \cup FlipsIn(body, CiphertextRegion(kidLen, Len(body)))
    \cup {SubSeq(body, 1, n) :
            n \in {0, 5, kidLen + ivLength + authTagLength,
                   1 + kidLen + ivLength + authTagLength, Len(body) - 1}}

\* Bodies no put produced: a 5-byte body naming a known kid, and an envelope
\* of zero bytes under kid "v2".
ForeignBodies ==
  {<<2>> \o Utf8Encode(V1) \o <<0, 0>>,
   <<2>> \o Utf8Encode(V2) \o Repeat(0, ivLength + authTagLength + 1)}

\* Every answer the backend may give to GetObject for an object.
GetResponses(object) ==
  {ErrorResponse(NoSuchKey), ErrorResponse(GenericFailure), NoBodyResponse,
   StreamErrorResponse(GenericFailure)}
    \cup {BodyResponse(b) : b \in ForeignBodies}
    \cup IF IsSome(backend[object])
           THEN {BodyResponse(b) :
                   b \in {Get1(backend[object])}
                          \cup Tampered(Get1(backend[object]),
                                        Len(Utf8Encode(Get1(written[object]).primaryKey)))}
           ELSE {}

\* The answer of a backend that behaves as a map.
HonestResponse(object) ==
  IF IsSome(backend[object]) THEN BodyResponse(Get1(backend[object]))
  ELSE ErrorResponse(NoSuchKey)

----------------------------------------------------------------------------
(* Inputs *)

\* "b/k"
PathBK == <<98, 47, 107>>

\* "nokey": no '/'
PathInvalid == <<110, 111, 107, 101, 121>>

Paths == {Some(PathBK), Some(PathInvalid)}

Objects == {ObjectOf(parsePath(p)) : p \in {q \in Paths : parsePath(q).ok}}

BufferData(bytes) == [isBuffer |-> TRUE, content |-> bytes]

StringData(units) == [isBuffer |-> FALSE, content |-> units]

\* Buffers of 0, SmallLimit and SmallLimit + 1 bytes, the empty string and
\* "é".
DataChoices ==
  {BufferData([i \in 1..n |-> 200 + i]) : n \in {0, SmallLimit, SmallLimit + 1}}
    \cup {StringData(<<>>), StringData(<<233>>)}

\* Key identifiers and the key strings each is configured with.
MainKids == {V1, V2, KidLong}

OfferedKeys(kid) ==
  IF kid = V1 THEN {HexK1, HexK2} ELSE IF kid = V2 THEN {HexK2} ELSE {HexK1}

MainKeyMaps ==
  {m \in KeyMaps(MainKids, {HexK1, HexK2}, MaxKeys) :
     \A k \in DOMAIN m : m[k] \in OfferedKeys(k)}

\* Configurations offered to a store that goes on to serve requests.
MainConfigs ==
  {[keys |-> Some(m), primaryKey |-> Some(p), maxFileSize |-> x] :
     m \in MainKeyMaps, p \in MainKids \cup {KidToString},
     x \in {None, Some(SmallLimit)}}

\* Configurations offered to the constructor alone.
AllKids == {V1, V2, KidSurrogate, KidLong, KidEmpty, KidToString}

AllKeyStrings == {HexK1, HexK2, HexShort, HexLong, HexBad, <<>>}

AllConfigs ==
  {[keys |-> k, primaryKey |-> p, maxFileSize |-> x] :
     k \in {None} \cup {Some(m) : m \in KeyMaps(AllKids, AllKeyStrings, MaxKeys)},
     p \in {None} \cup {Some(q) : q \in AllKids},
     x \in {None, Some(0), Some(SmallLimit)}}

----------------------------------------------------------------------------
(* State and actions *)

\* The last call made: its inputs, the backend's answer, the outcome, the
\* number of requests it sent, whether it called the cipher, the inputs of
\* the commands it sent and, for list, its other arguments, the responses it
\* received and the names it has gathered.
NoCall ==
  [op |-> "none", config |-> None, path |-> None, data |-> None,
   response |-> NoResponse, outcome |-> Resolved(<<>>), sent |-> 0,
   cipher |-> FALSE, requests |-> <<>>, args |-> <<>>, responses |-> <<>>,
   allKeys |-> <<>>]

\* The callers that may have a call of the store under way at the same time.
Callers == {"A", "B"}

\* A call under way: its inputs, where it stands (idle, requested, answered,
\* streaming, done), the body it sent, the answer it received and its outcome.
IdleCall ==
  [op |-> "none", pc |-> "idle", path |-> None, data |-> None, iv |-> <<>>,
   sent |-> None, response |-> NoResponse, outcome |-> Resolved(<<>>)]

Init ==
  /\ store = None
  /\ backend = [o \in Objects |-> None]
  /\ written = [o \in Objects |-> None]
  /\ last = NoCall
  /\ calls = [c \in Callers |-> IdleCall]

\* new SecureS3Store(config) at process start.
ConstructWith(config) ==
  LET made == Construct(config) IN
  /\ store' = made.store
  /\ last' = [NoCall EXCEPT !.op = "construct", !.config = Some(config),
                            !.outcome = IF made.ok THEN Resolved(<<>>)
                                        ELSE Rejected(made.error)]
  /\ UNCHANGED <<backend, written, calls>>

\* A process starts: it has no store and no call under way.
Starting == store = None /\ last.op = "none"

ConstructStore == Starting /\ \E config \in MainConfigs : ConstructWith(config)

ConstructAny == Starting /\ \E config \in AllConfigs : ConstructWith(config)

\* The process ends; the backend keeps its objects.
Shutdown ==
  /\ IsSome(store)
  /\ last.op = "none"
  /\ store' = None
  /\ last' = NoCall
  /\ UNCHANGED <<backend, written, calls>>

\* What the backend may answer to PutObject: success, or a failure.
PutAnswers == {None, Some(GenericFailure)}

\* The input of a PutObject, GetObject or DeleteObject command.
ObjectRequest(object) == [Bucket |-> object[1], Key |-> object[2]]

\* A put that uploads the data as soon as the path parses and validates it
\* afterwards.
PutCall_SendFirst(path, data, iv, answer) ==
  LET prep == PutPrepare(Get1(store), path, data, iv)
      parsed == parsePath(path)
      stored == parsed.ok /\ ~IsSome(answer) IN
  /\ backend' = IF stored THEN [backend EXCEPT ![ObjectOf(parsed)] = Some(ToBuffer(data))]
                ELSE backend
  /\ last' = [NoCall EXCEPT !.op = "put", !.path = path, !.data = Some(data),
                            !.outcome = IF prep.ok THEN PutFinish(answer)
                                        ELSE Rejected(prep.error),
                            !.sent = IF parsed.ok THEN 1 ELSE 0,
                            !.requests = IF parsed.ok THEN <<ObjectRequest(ObjectOf(parsed))>>
                                         ELSE <<>>]
  /\ UNCHANGED <<store, written, calls>>

\* store.put(path, data): rejected before any request is sent, or one request
\* sent, which the backend stores or fails.
PutCall(path, data, iv, answer) ==
  LET st == Get1(store)
      prep == PutPrepare(st, path, data, iv)
      stored == prep.ok /\ ~IsSome(answer) IN
  /\ backend' = IF stored THEN [backend EXCEPT ![prep.object] = Some(prep.body)]
                ELSE backend
  /\ written' = IF stored
                  THEN [written EXCEPT ![prep.object] =
                          Some([plaintext |-> ToBuffer(data),
                                primaryKey |-> st.primaryKey,
                                key |-> st.keys[st.primaryKey], iv |-> iv])]
                ELSE written
  /\ last' = [NoCall EXCEPT !.op = "put", !.path = path, !.data = Some(data),
                            !.response = IF prep.ok /\ IsSome(answer)
                                           THEN ErrorResponse(Get1(answer))
                                         ELSE NoResponse,
                            !.outcome = IF prep.ok THEN PutFinish(answer)
                                        ELSE Rejected(prep.error),
                            !.sent = IF prep.ok THEN 1 ELSE 0,
                            !.cipher = prep.cipher,
                            !.requests = IF prep.ok THEN <<ObjectRequest(prep.object)>>
                                         ELSE <<>>]
  /\ UNCHANGED <<store, calls>>

\* A store exists and no call is under way.
Idle == IsSome(store) /\ last.op = "none"

Put ==
  /\ Idle
  /\ \E path \in Paths, data \in DataChoices, iv \in Ivs, answer \in PutAnswers :
       PutCall(path, data, iv, answer)

\* store.get(path): rejected before any request is sent, or one request
\* sent, which the backend answers with response.
GetCall(path, response) ==
  LET parsed == parsePath(path) IN
  /\ last' = [NoCall EXCEPT !.op = "get", !.path = path, !.response = response,
                            !.outcome = GetOutcome(Get1(store), path, response),
                            !.sent = IF parsed.ok THEN 1 ELSE 0,
                            !.cipher = parsed.ok /\ GetTry(Get1(store), path, response).cipher,
                            !.requests = IF parsed.ok THEN <<ObjectRequest(ObjectOf(parsed))>>
                                         ELSE <<>>]
  /\ UNCHANGED <<store, backend, written, calls>>

\* get against a backend that may answer in any way.
Get ==
  /\ Idle
  /\ \E path \in Paths :
       \E response \in IF parsePath(path).ok THEN GetResponses(ObjectOf(parsePath(path)))
                       ELSE {NoResponse} :
         GetCall(path, response)

\* The caller takes the outcome of the call it made.
Settle ==
  /\ last.op /= "none"
  /\ last' = NoCall
  /\ UNCHANGED <<store, backend, written, calls>>

Next ==
  \/ ConstructStore
  \/ Shutdown
  \/ Put
  \/ Get
  \/ Settle

Spec == Init /\ [][Next]_vars

\* The constructor alone, over every configuration offered.
NextKeyRing == ConstructAny \/ Settle

SpecKeyRing == Init /\ [][NextKeyRing]_vars

----------------------------------------------------------------------------
(* Vocabulary of the properties *)

\* The backend object the last call addressed.
LastObject == ObjectOf(parsePath(last.path))

LastPathValid == IsSome(last.path) /\ parsePath(last.path).ok

\* The bytes the last put was given.
LastPlaintext == ToBuffer(Get1(last.data))

PutResolved == IsSome(store) /\ last.op = "put" /\ last.outcome.kind = "resolved"

\* The last call was a get whose request the backend answered with a body.
GotBody == IsSome(store) /\ last.op = "get" /\ last.response.kind = "body"

\* The backend returned exactly the body the last successful put stored.
GotStoredBody ==
  GotBody /\ IsSome(backend[LastObject])
    /\ last.response.body = Get1(backend[LastObject])

RejectedWith(name) == last.outcome.kind = "rejected" /\ last.outcome.error.name = name

\* The kid field of a body, read as the envelope format defines it.
EmbeddedKid(body) ==
  IF body = <<>> THEN <<>> ELSE Utf8Decode(Slice(body, 1, 1 + body[1]))

KeyBytes1 == HexDecode(HexK1)

KeyBytes2 == HexDecode(HexK2)

----------------------------------------------------------------------------
(* C1 *)

\* C1: the body a resolved put stored, returned by the backend to get on the
\* same store, makes get resolve with the bytes put was given.
C1_RoundTrip ==
  PutResolved =>
    GetOutcome(Get1(store), last.path, HonestResponse(LastObject))
      = Resolved(LastPlaintext)

----------------------------------------------------------------------------
(* C2 *)

\* The returned body is a stored envelope with one bit flipped in its authTag
\* or ciphertext region, or the stored envelope itself read by a store whose
\* key for the writer's kid differs from the key it was encrypted with.
C2_TagMustFail ==
  /\ GotBody
  /\ IsSome(written[LastObject])
  /\ LET w == Get1(written[LastObject])
         body == Get1(backend[LastObject])
         kidLen == Len(Utf8Encode(w.primaryKey))
     IN \/ last.response.body \in FlipsIn(body, TagRegion(kidLen))
        \/ last.response.body \in FlipsIn(body, CiphertextRegion(kidLen, Len(body)))
        \/ /\ last.response.body = body
           /\ w.primaryKey \in DOMAIN Get1(store).keys
           /\ Get1(store).keys[w.primaryKey] /= w.key

\* C2: a failed tag verification makes get reject with DecryptionError.
C2_TamperIsDecryptionError == C2_TagMustFail => RejectedWith("DecryptionError")

----------------------------------------------------------------------------
(* C3 *)

\* C3: when the kid embedded in the returned body is not in the store's keys,
\* get rejects with DecryptionError naming that kid, without calling the
\* cipher and without returning bytes.
C3_UnknownKid ==
  (GotBody /\ EmbeddedKid(last.response.body) \notin DOMAIN Get1(store).keys) =>
    /\ last.outcome
         = Rejected(DecryptionError("No secret key found for KID: ",
                                    EmbeddedKid(last.response.body)))
    /\ ~last.cipher

\* A complete envelope under kid "v2" was returned to a store without "v2".
C3_Witness ==
  /\ GotBody
  /\ Len(last.response.body) > 1 + Len(V2) + ivLength + authTagLength
  /\ EmbeddedKid(last.response.body) = V2
  /\ V2 \notin DOMAIN Get1(store).keys
  /\ RejectedWith("DecryptionError")
  /\ last.outcome.error.detail = V2

----------------------------------------------------------------------------
(* C4 *)

\* Key Ring A: {v1: K1}, primary v1.
IsRingA(st) == st.keys = (V1 :> KeyBytes1) /\ st.primaryKey = V1

\* Key Ring B: {v1: K1, v2: K2}, primary v2.
IsRingB(st) == st.keys = (V1 :> KeyBytes1) @@ (V2 :> KeyBytes2) /\ st.primaryKey = V2

ConfigB(maxFileSize) ==
  [keys |-> Some((V1 :> HexK1) @@ (V2 :> HexK2)), primaryKey |-> Some(V2),
   maxFileSize |-> maxFileSize]

\* The stored envelope was written under primary v1 with K1.
WrittenUnderV1 ==
  /\ IsSome(written[LastObject])
  /\ Get1(written[LastObject]).primaryKey = V1
  /\ Get1(written[LastObject]).key = KeyBytes1

\* C4: what a store with ring A wrote, a store with ring B reads back; what a
\* store with ring B writes carries kid v2 and is read back by it.
C4_RotationContinuity ==
  /\ (PutResolved /\ IsRingA(Get1(store))) =>
       \A x \in {None, Some(SmallLimit)} :
         /\ Construct(ConfigB(x)).ok
         /\ GetOutcome(Get1(Construct(ConfigB(x)).store), last.path,
                       HonestResponse(LastObject)) = Resolved(LastPlaintext)
  /\ (PutResolved /\ IsRingB(Get1(store))) =>
       /\ EmbeddedKid(Get1(backend[LastObject])) = V2
       /\ GetOutcome(Get1(store), last.path, HonestResponse(LastObject))
            = Resolved(LastPlaintext)
  /\ (GotStoredBody /\ IsRingB(Get1(store)) /\ WrittenUnderV1) =>
       last.outcome = Resolved(Get1(written[LastObject]).plaintext)

\* After rotation, a store with ring B has read back an envelope written under
\* primary v1.
C4_Witness ==
  /\ GotStoredBody
  /\ IsRingB(Get1(store))
  /\ WrittenUnderV1
  /\ EmbeddedKid(last.response.body) = V1
  /\ last.outcome = Resolved(Get1(written[LastObject]).plaintext)

----------------------------------------------------------------------------
(* C5 *)

\* The store the same configuration yields with p as its primaryKey.
WithPrimary(st, p) == Construct([st.config EXCEPT !.primaryKey = Some(p)])

\* C5: every store built from the same keys with another primaryKey gives the
\* outcome the last get gave for the same response.
C5_PrimaryIndependent ==
  (IsSome(store) /\ last.op = "get") =>
    \A p \in MainKids \cup {KidToString} :
      WithPrimary(Get1(store), p).ok =>
        GetOutcome(Get1(WithPrimary(Get1(store), p).store), last.path, last.response)
          = last.outcome

\* A get resolved on a store that has two keys, for an envelope whose kid is
\* not the store's primaryKey.
C5_Witness ==
  /\ GotBody
  /\ last.outcome.kind = "resolved"
  /\ EmbeddedKid(last.response.body) /= Get1(store).primaryKey
  /\ \E p \in MainKids : p /= Get1(store).primaryKey /\ WithPrimary(Get1(store), p).ok

----------------------------------------------------------------------------
(* C6 *)

\* C6: the stored body is the length byte, the kid, the 16-byte nonce, the
\* 16-byte tag and the ciphertext; its length is 1 + kidLength + 16 + 16 +
\* the plaintext's; get slices from offset 1 + kidLength on.
C6_EnvelopeLayout ==
  PutResolved =>
    LET body == Get1(backend[LastObject])
        w == Get1(written[LastObject])
        kid == Utf8Encode(Get1(store).primaryKey)
        n == Len(kid)
        ciphertext == GcmEncrypt(w.key, w.iv, LastPlaintext)
    IN /\ body[1] = n
       /\ Slice(body, 1, 1 + n) = kid
       /\ Slice(body, 1 + n, 1 + n + 16) = w.iv
       /\ Slice(body, 1 + n + 16, 1 + n + 32) = GcmTag(w.key, w.iv, ciphertext)
       /\ Slice(body, 1 + n + 32, Len(body)) = ciphertext
       /\ Len(body) = 1 + n + 16 + 16 + Len(LastPlaintext)
       /\ IvOffsetOf(body) = 1 + n

----------------------------------------------------------------------------
(* C7 *)

\* C7: a returned body shorter than 1 + kidLength + 16 + 16 bytes makes get
\* reject with ValidationError before the cipher is called.
C7_MalformedIsValidationError ==
  (GotBody /\ Len(last.response.body)
                < 1 + KidLengthOf(last.response.body) + ivLength + authTagLength) =>
    RejectedWith("ValidationError") /\ ~last.cipher

----------------------------------------------------------------------------
(* C8 *)

PutCalled == IsSome(store) /\ last.op = "put"

\* C8: put with data of length 0 rejects with ValidationError, and with the
\* empty-data message when the path is valid; nothing is sent.
C8_EmptyInput ==
  (PutCalled /\ Len(LastPlaintext) = 0) =>
    /\ RejectedWith("ValidationError")
    /\ last.sent = 0
    /\ LastPathValid =>
         last.outcome.error = ValidationError("Input data cannot be null or empty", <<>>)

\* put was called with the empty string on a valid path.
C8_Witness ==
  /\ PutCalled
  /\ LastPathValid
  /\ Get1(last.data) = StringData(<<>>)
  /\ RejectedWith("ValidationError")

----------------------------------------------------------------------------
(* C9 *)

\* C9: with limit L in effect, data of exactly L bytes reaches the backend and
\* data of L + 1 bytes is rejected with a ValidationError reporting L + 1 and L.
C9_SizeBoundary ==
  (PutCalled /\ LastPathValid) =>
    LET L == Get1(store).maxFileSize IN
    /\ Len(LastPlaintext) = L => last.sent = 1
    /\ Len(LastPlaintext) = L + 1 =>
         last.outcome
           = Rejected(ValidationError("File size of bytes exceeds maximum limit of bytes",
                                      <<L + 1, L>>))

----------------------------------------------------------------------------
(* C10 *)

\* Bytes Buffer.from(s, 'hex') yields: one per leading pair of hex digits.
RECURSIVE HexPairs(_, _)
HexPairs(s, n) ==
  IF 2 * n + 2 <= Len(s) /\ IsHexChar(s[2 * n + 1]) /\ IsHexChar(s[2 * n + 2])
    THEN HexPairs(s, n + 1) ELSE n

\* The keys mapping is empty, the primaryKey is not one of its identifiers,
\* or one of its entries does not decode to 32 bytes.
BadKeyRing(config) ==
  \/ ~IsSome(config.keys)
  \/ DOMAIN Get1(config.keys) = {}
  \/ ~IsSome(config.primaryKey)
  \/ Get1(config.primaryKey) \notin DOMAIN Get1(config.keys)
  \/ \E k \in DOMAIN Get1(config.keys) : HexPairs(Get1(config.keys)[k], 0) /= 32

\* C10: construction from such a configuration fails; no store instance
\* results.
C10_NoInstanceResults ==
  (last.op = "construct" /\ BadKeyRing(Get1(last.config))) =>
    store = None /\ last.outcome.kind = "rejected"

----------------------------------------------------------------------------
(* C11 *)

\* One of the supplied key identifiers is the empty string or encodes to more
\* UTF-8 bytes than the one length byte of the envelope can hold.
BadKid(config) ==
  /\ IsSome(config.keys)
  /\ \E k \in DOMAIN Get1(config.keys) :
       k = <<>> \/ Len(Utf8Encode(k)) > ByteModulus - 1

\* C11: construction from a configuration with an empty or over-long key
\* identifier, primary or not, fails.
C11_BadKidRejected ==
  (last.op = "construct" /\ BadKid(Get1(last.config))) =>
    store = None /\ last.outcome.kind = "rejected"

----------------------------------------------------------------------------
(* C13 *)

\* The backend reported the object absent: a NoSuchKey failure, or a response
\* without a Body.
ObjectAbsent ==
  \/ last.response.kind = "error" /\ last.response.error.name = "NoSuchKey"
  \/ last.response.kind = "noBody"

\* C13: get rejects with NotFoundError whenever the object is absent.
C13_AbsentIsNotFound ==
  (IsSome(store) /\ last.op = "get" /\ LastPathValid /\ ObjectAbsent) =>
    RejectedWith("NotFoundError")

----------------------------------------------------------------------------
(* delete *)

\* delete(path) given the backend's answer to its request (None: success).
DeleteOutcome(path, sendError) ==
  LET parsed == parsePath(path)
  IN IF ~parsed.ok THEN Rejected(parsed.error)
     ELSE IF IsSome(sendError)
       THEN Rejected(S3Error("S3 DeleteObject failed: ", Get1(sendError).text))
     ELSE Resolved(<<>>)

----------------------------------------------------------------------------
(* list *)

\* The default of list's limit parameter.
DefaultLimit == 1000

\* A slice that ignores where the window starts.
ArraySlice_FromStart(arr, start, end) ==
  SubSeq(arr, 1, IF end < 0 THEN Len(arr) + end
                 ELSE IF end > Len(arr) THEN Len(arr) ELSE end)

\* Array.prototype.slice(start, end): negative offsets count from the end.
ArraySlice(arr, start, end) ==
  LET n == Len(arr)
      from == IF start < 0 THEN (IF n + start < 0 THEN 0 ELSE n + start)
              ELSE IF start > n THEN n ELSE start
      to == IF end < 0 THEN (IF n + end < 0 THEN 0 ELSE n + end)
            ELSE IF end > n THEN n ELSE end
  IN IF to <= from THEN <<>> ELSE SubSeq(arr, from + 1, to)

\* key.endsWith(suffix)
EndsWith(key, suffix) ==
  Len(key) >= Len(suffix)
    /\ SubSeq(key, Len(key) - Len(suffix) + 1, Len(key)) = suffix

\* key.startsWith(prefix)
StartsWith(key, prefix) ==
  Len(key) >= Len(prefix) /\ SubSeq(key, 1, Len(prefix)) = prefix

\* Contents.map(obj => obj.Key || '').filter(key => key && key.endsWith('.enc'))
\*   .map(key => key.slice(0, -4)); an entry without Key is None.
RECURSIVE PageNames(_)
PageNames(contents) ==
  IF contents = <<>> THEN <<>>
  ELSE LET key == IF IsSome(Head(contents)) THEN Get1(Head(contents)) ELSE <<>>
       IN (IF key /= <<>> /\ EndsWith(key, EncSuffix)
             THEN <<ArraySlice(key, 0, -4)>> ELSE <<>>)
            \o PageNames(Tail(contents))

\* A command that never carries a continuation token.
ListRequest_NoToken(bucket, prefix, recursive, continuationToken) ==
  [Bucket |-> bucket, Prefix |-> prefix,
   Delimiter |-> IF recursive THEN None ELSE Some(<<Slash>>),
   ContinuationToken |-> None]

\* A command that never carries a delimiter.
ListRequest_NoDelimiter(bucket, prefix, recursive, continuationToken) ==
  [Bucket |-> bucket, Prefix |-> prefix, Delimiter |-> None,
   ContinuationToken |-> continuationToken]

\* The ListObjectsV2Command of one round of the loop.
ListRequest(bucket, prefix, recursive, continuationToken) ==
  [Bucket |-> bucket, Prefix |-> prefix,
   Delimiter |-> IF recursive THEN None ELSE Some(<<Slash>>),
   ContinuationToken |-> continuationToken]

\* A ListObjectsV2 response, and a failed request.
ListPage(contents, token) ==
  [kind |-> "page", error |-> NoError, Contents |-> contents,
   NextContinuationToken |-> token]

ListFailure(e) ==
  [kind |-> "error", error |-> e, Contents |-> None, NextContinuationToken |-> None]

\* while (continuationToken): undefined and '' end the loop.
TokenTruthy(token) == IsSome(token) /\ Get1(token) /= <<>>

\* Keys a backend returns per ListObjectsV2 page.
PageSize == 2

\* a sorts before b in the byte order a backend lists keys in
RECURSIVE LexLess(_, _)
LexLess(a, b) ==
  IF b = <<>> THEN FALSE
  ELSE IF a = <<>> THEN TRUE
  ELSE IF Head(a) /= Head(b) THEN Head(a) < Head(b)
  ELSE LexLess(Tail(a), Tail(b))

RECURSIVE SortedKeys(_)
SortedKeys(keys) ==
  IF keys = {} THEN <<>>
  ELSE LET least == CHOOSE k \in keys : \A other \in keys \ {k} : LexLess(k, other)
       IN <<least>> \o SortedKeys(keys \ {least})

HasSlash(s) == \E i \in 1..Len(s) : s[i] = Slash

\* The keys of the objects a bucket of backend bk holds.
BucketKeys(bk, bucket) ==
  {o[2] : o \in {x \in DOMAIN bk : x[1] = bucket /\ IsSome(bk[x])}}

\* The keys a backend that honours Prefix and Delimiter reports in Contents:
\* those under the prefix, without the ones a delimiter rolls up into common
\* prefixes, in listing order.
Matching(bk, request) ==
  SortedKeys({k \in BucketKeys(bk, request.Bucket) :
                /\ StartsWith(k, request.Prefix)
                /\ IsSome(request.Delimiter) =>
                     ~HasSlash(SubSeq(k, Len(request.Prefix) + 1, Len(k)))})

\* The answer of a backend that behaves as a map to request number n of a
\* list call; it fails request number failAt (0: none).  A continuation token
\* is the one-character string naming the position of the next key.
ListAnswer(bk, failAt, n, request) ==
  LET matching == Matching(bk, request)
      start == IF TokenTruthy(request.ContinuationToken)
                 THEN Get1(request.ContinuationToken)[1] ELSE 1
      stop == IF start + PageSize - 1 > Len(matching) THEN Len(matching)
              ELSE start + PageSize - 1
      page == SubSeq(matching, start, stop)
  IN IF n = failAt THEN ListFailure(GenericFailure)
     ELSE ListPage(IF page = <<>> THEN None
                   ELSE Some([i \in 1..Len(page) |-> Some(page[i])]),
                   IF stop < Len(matching) THEN Some(<<stop + 1>>) ELSE None)

RECURSIVE ListLoop(_, _, _, _, _, _, _, _, _, _)

\* One round of the loop after its request was answered with response: the
\* catch for a failed request, or the page's names gathered and the loop
\* continued while the response carries a token.
ListRound(bk, failAt, bucket, prefix, recursive, n, allKeys, sent, responses, response) ==
  LET received == Append(responses, response)
      keys == IF IsSome(response.Contents) THEN PageNames(Get1(response.Contents))
              ELSE <<>>
  IN IF response.kind = "error"
       THEN [threw |-> TRUE, error |-> response.error, allKeys |-> allKeys,
             requests |-> sent, responses |-> received]
     ELSE IF TokenTruthy(response.NextContinuationToken)
       THEN ListLoop(bk, failAt, bucket, prefix, recursive,
                     response.NextContinuationToken, n + 1, allKeys \o keys, sent,
                     received)
     ELSE [threw |-> FALSE, error |-> NoError, allKeys |-> allKeys \o keys,
           requests |-> sent, responses |-> received]

\* One round of the loop from sending request, the backend's answer included.
ListSend(bk, failAt, bucket, prefix, recursive, n, allKeys, requests, responses, request) ==
  ListRound(bk, failAt, bucket, prefix, recursive, n, allKeys,
            Append(requests, request), responses, ListAnswer(bk, failAt, n, request))

\* The do-while loop of list from request number n on: the names gathered,
\* the requests sent and the responses received, or the error a request
\* failed with.
ListLoop(bk, failAt, bucket, prefix, recursive, continuationToken, n, allKeys, requests, responses) ==
  ListSend(bk, failAt, bucket, prefix, recursive, n, allKeys, requests, responses,
           ListRequest(bucket, prefix, recursive, continuationToken))

\* list after its loop: the error wrapped, or the window of the names.
ListSettle(looped, offset, limit) ==
  [outcome |-> IF looped.threw
                 THEN Rejected(S3Error("S3 ListObjectsV2 failed: ", looped.error.text))
               ELSE Resolved(ArraySlice(looped.allKeys, offset, offset + limit)),
   requests |-> looped.requests, responses |-> looped.responses,
   allKeys |-> looped.allKeys,
   failure |-> IF looped.threw THEN Some(looped.error) ELSE None]

\* list(path, offset, limit, recursive) against backend bk: the outcome, the
\* requests sent, the responses received, the names gathered and the failure
\* of a request, if one failed.
ListCallResult(bk, failAt, path, offset, limit, recursive) ==
  LET parsed == parsePath(path)
  IN IF ~parsed.ok
       THEN [outcome |-> Rejected(parsed.error), requests |-> <<>>,
             responses |-> <<>>, allKeys |-> <<>>, failure |-> None]
     ELSE ListSettle(ListLoop(bk, failAt, parsed.bucket, parsed.key, recursive,
                              None, 1, <<>>, <<>>, <<>>),
                     offset, limit)

----------------------------------------------------------------------------
(* All four calls of one store against a backend that behaves as a map *)

\* store.delete(path): rejected before any request is sent, or one request
\* sent, which the backend carries out or fails.
DeleteCall(path, answer) ==
  LET parsed == parsePath(path)
      deleted == parsed.ok /\ ~IsSome(answer) IN
  /\ backend' = IF deleted THEN [backend EXCEPT ![ObjectOf(parsed)] = None]
                ELSE backend
  /\ written' = IF deleted THEN [written EXCEPT ![ObjectOf(parsed)] = None]
                ELSE written
  /\ last' = [NoCall EXCEPT !.op = "delete", !.path = path,
                            !.response = IF parsed.ok /\ IsSome(answer)
                                           THEN ErrorResponse(Get1(answer))
                                         ELSE NoResponse,
                            !.outcome = DeleteOutcome(path, answer),
                            !.sent = IF parsed.ok THEN 1 ELSE 0,
                            !.requests = IF parsed.ok THEN <<ObjectRequest(ObjectOf(parsed))>>
                                         ELSE <<>>]
  /\ UNCHANGED <<store, calls>>

\* What a list call leaves behind for its caller.
ListRecord(path, offset, limit, recursive, result) ==
  [NoCall EXCEPT !.op = "list", !.path = path,
                 !.response = IF IsSome(result.failure)
                                THEN ErrorResponse(Get1(result.failure))
                              ELSE NoResponse,
                 !.outcome = result.outcome,
                 !.sent = Len(result.requests),
                 !.requests = result.requests,
                 !.args = [offset |-> offset, limit |-> limit,
                           recursive |-> recursive],
                 !.responses = result.responses,
                 !.allKeys = result.allKeys]

\* store.list(path, offset, limit, recursive): rejected before any request is
\* sent, or the loop of requests, of which the backend fails number failAt.
ListCall(path, offset, limit, recursive, failAt) ==
  /\ last' = ListRecord(path, offset, limit, recursive,
                        ListCallResult(backend, failAt, path, offset, limit, recursive))
  /\ UNCHANGED <<store, backend, written, calls>>

\* What a backend that behaves as a map answers to GetObject, failures
\* included.
MapResponses(object) == {HonestResponse(object), ErrorResponse(GenericFailure)}

GetFromMap ==
  /\ Idle
  /\ \E path \in Paths :
       \E response \in IF parsePath(path).ok THEN MapResponses(ObjectOf(parsePath(path)))
                       ELSE {NoResponse} :
         GetCall(path, response)

Delete ==
  /\ Idle
  /\ \E path \in Paths, answer \in PutAnswers : DeleteCall(path, answer)

List ==
  /\ Idle
  /\ \E path \in Paths, recursive \in BOOLEAN, failAt \in {0, 1} :
       ListCall(path, 0, DefaultLimit, recursive, failAt)

NextCalls ==
  \/ ConstructStore
  \/ Put
  \/ GetFromMap
  \/ Delete
  \/ List
  \/ Settle

SpecCalls == Init /\ [][NextCalls]_vars

----------------------------------------------------------------------------
(* C12 *)

\* The key Map and primaryKey the constructor derives from a configuration.
KeysOfConfig(config) ==
  [k \in DOMAIN Get1(config.keys) |-> HexDecode(Get1(config.keys)[k])]

\* C12: in every state after a successful construction, whatever calls were
\* made, primaryKey is an identifier of the store's key Map, every key in the
\* Map is 32 bytes, and Map and primaryKey are those of the construction.
C12_KeyRingInvariant ==
  IsSome(store) =>
    LET st == Get1(store) IN
    /\ st.primaryKey \in DOMAIN st.keys
    /\ \A k \in DOMAIN st.keys : Len(st.keys[k]) = HexKeyChars \div 2
    /\ st.keys = KeysOfConfig(st.config)
    /\ st.primaryKey = Get1(st.config.primaryKey)

----------------------------------------------------------------------------
(* C14 *)

\* The last call was a get on a valid path that the backend answered as a
\* map does.
GotFromMap ==
  /\ IsSome(store) /\ last.op = "get" /\ LastPathValid
  /\ last.response = HonestResponse(LastObject)

\* C14: while the object of the last successful put is in the backend, get
\* resolves with the data put was given; while no object is there (never
\* put, or deleted), get rejects with NotFoundError.
C14_Lifecycle ==
  GotFromMap =>
    IF IsSome(written[LastObject])
      THEN last.outcome = Resolved(Get1(written[LastObject]).plaintext)
    ELSE RejectedWith("NotFoundError")

----------------------------------------------------------------------------
(* Names: one store over a bucket that also holds objects put never wrote *)

\* "b"
BucketB == <<98>>

\* Keys put, get and delete are called with: "k" and "d/k".
KeyK == <<107>>

KeyDK == <<100, 47, 107>>

PathOf(bucket, key) == Some(bucket \o <<Slash>> \o key)

NamePaths == {PathOf(BucketB, KeyK), PathOf(BucketB, KeyDK), Some(PathInvalid)}

\* Keys of objects another writer left in the bucket: "d/x", "d/y.enc",
\* "d/e/z.enc" and ".enc".
ForeignKeys ==
  {<<100, 47, 120>>, <<100, 47, 121>> \o EncSuffix,
   <<100, 47, 101, 47, 122>> \o EncSuffix, EncSuffix}

\* The body of an object another writer left.
ForeignBody == <<0>>

NameObjects ==
  {<<BucketB, KeyK \o EncSuffix>>, <<BucketB, KeyDK \o EncSuffix>>}
    \cup {<<BucketB, k>> : k \in ForeignKeys}

\* Paths list is called with: "b/d/", "b/d", "b/k", "b/." and an invalid one.
ListPaths ==
  {PathOf(BucketB, <<100, 47>>), PathOf(BucketB, <<100>>), PathOf(BucketB, KeyK),
   PathOf(BucketB, <<46>>), Some(PathInvalid)}

\* {v1: K1}, primary v1, default size limit.
ConfigA ==
  [keys |-> Some(V1 :> HexK1), primaryKey |-> Some(V1), maxFileSize |-> None]

\* Data of exactly SmallLimit bytes.
NameData == {d \in DataChoices : d.isBuffer /\ Len(d.content) = SmallLimit}

InitNames ==
  /\ store = Construct(ConfigA).store
  /\ \E present \in SUBSET ForeignKeys :
       backend = [o \in NameObjects |->
                    IF o[2] \in present THEN Some(ForeignBody) ELSE None]
  /\ written = [o \in NameObjects |-> None]
  /\ last = NoCall
  /\ calls = [c \in Callers |-> IdleCall]

PutNamed ==
  /\ Idle
  /\ \E path \in NamePaths, data \in NameData, iv \in Ivs, answer \in PutAnswers :
       PutCall(path, data, iv, answer)

GetNamed ==
  /\ Idle
  /\ \E path \in NamePaths :
       \E response \in IF parsePath(path).ok THEN MapResponses(ObjectOf(parsePath(path)))
                       ELSE {NoResponse} :
         GetCall(path, response)

DeleteNamed ==
  /\ Idle
  /\ \E path \in NamePaths, answer \in PutAnswers : DeleteCall(path, answer)

\* The largest offset list is called with.
MaxOffset == 3

\* The (offset, limit) pairs list is called with; the first is the default.
Windows ==
  {<<offset, limit>> : offset \in {0, 1, MaxOffset}, limit \in {0, 1, DefaultLimit}}

ListNamed ==
  /\ Idle
  /\ \E path \in ListPaths, recursive \in BOOLEAN, failAt \in 0..2, window \in Windows :
       ListCall(path, window[1], window[2], recursive, failAt)

NextNames ==
  \/ PutNamed
  \/ GetNamed
  \/ DeleteNamed
  \/ ListNamed
  \/ Settle

SpecNames == InitNames /\ [][NextNames]_vars

----------------------------------------------------------------------------
(* C15 *)

\* The names the last list call resolved with.
ListedNames == {last.outcome.value[i] : i \in 1..Len(last.outcome.value)}

ListResolved == IsSome(store) /\ last.op = "list" /\ last.outcome.kind = "resolved"

\* The last call was a list on a valid path with the default window whose
\* requests the backend all answered.
ListedAll ==
  /\ ListResolved
  /\ last.args.offset = 0 /\ last.args.limit = DefaultLimit

\* The keys ending in ".enc" among those the backend reports for the
\* request, in its order, each without its last four characters.
StrippedEncKeys(request) ==
  LET enc == SelectSeq(Matching(backend, request), LAMBDA k : EndsWith(k, EncSuffix))
  IN [i \in 1..Len(enc) |-> SubSeq(enc[i], 1, Len(enc[i]) - Len(EncSuffix))]

\* put, get and delete on bucket/k sent one command for key k.enc of bucket.
AddressesEncObject ==
  \A k \in {KeyK, KeyDK} :
    (last.op \in {"put", "get", "delete"} /\ last.path = PathOf(BucketB, k)) =>
      last.requests = <<[Bucket |-> BucketB, Key |-> k \o EncSuffix]>>

\* Every listed name, passed back as bucket/name, is a valid path that
\* addresses the listed object.
ListedNamesUsable ==
  \A n \in ListedNames :
    /\ parsePath(PathOf(BucketB, n)).ok
    /\ ObjectOf(parsePath(PathOf(BucketB, n))) \in DOMAIN backend
    /\ IsSome(backend[ObjectOf(parsePath(PathOf(BucketB, n)))])

\* C15: put, get and delete address k.enc; list returns the backend's keys
\* under the prefix that end in ".enc", stripped and in order; what put wrote
\* as bucket/k is listed as k; every listed name can be passed back.
C15_NameMapping ==
  /\ AddressesEncObject
  /\ ListedAll =>
       LET reported == Matching(backend, last.requests[1]) IN
       /\ last.outcome.value = StrippedEncKeys(last.requests[1])
       /\ \A k \in {KeyK, KeyDK} :
            (/\ IsSome(written[<<BucketB, k \o EncSuffix>>])
             /\ \E i \in 1..Len(reported) : reported[i] = k \o EncSuffix)
              => k \in ListedNames
       /\ ListedNamesUsable

----------------------------------------------------------------------------
(* C16 *)

\* The message prefix of the S3Error each call wraps a failed request in.
FailedPrefix(op) ==
  IF op = "put" THEN "S3 PutObject failed: "
  ELSE IF op = "delete" THEN "S3 DeleteObject failed: "
  ELSE "S3 ListObjectsV2 failed: "

\* A request of the last put, delete or list call failed.
RequestFailed ==
  /\ IsSome(store)
  /\ last.op \in {"put", "delete", "list"}
  /\ last.response.kind = "error"

\* C16: a failed request of put, delete or list makes the call reject with
\* S3Error whose message is the call's prefix followed by the failure's
\* message.
C16_FailureWrapped ==
  RequestFailed =>
    last.outcome = Rejected(S3Error(FailedPrefix(last.op), last.response.error.text))

\* The request of a put failed and the put rejected with S3Error.
C16_Witness ==
  /\ RequestFailed
  /\ last.op = "put"
  /\ RejectedWith("S3Error")
  /\ last.outcome.error.cause = GenericFailure.text

----------------------------------------------------------------------------
(* parsePath alone *)

\* The longest path string offered to parsePath.
MaxPathLen == 4

\* Strings of 'a', 'b' and '/' up to MaxPathLen characters.
PathStrings ==
  UNION {[1..n -> {97, 98, Slash}] : n \in 0..MaxPathLen}

\* Every argument offered: the strings, and a value that is no string.
PathInputs == {None} \cup {Some(s) : s \in PathStrings}

\* SecureS3Store.parsePath(path), a static method: no store is needed.
ParsePathCall ==
  /\ last.op = "none"
  /\ \E path \in PathInputs :
       LET parsed == parsePath(path) IN
       last' = [NoCall EXCEPT !.op = "parsePath", !.path = path,
                              !.outcome = IF parsed.ok
                                            THEN Resolved(<<parsed.bucket, parsed.key>>)
                                          ELSE Rejected(parsed.error)]
  /\ UNCHANGED <<store, backend, written, calls>>

NextParse == ParsePathCall \/ Settle

SpecParse == Init /\ [][NextParse]_vars

----------------------------------------------------------------------------
(* C17 *)

\* The position of the first '/' of s, or 0.
FirstSlash(s) ==
  IF \E i \in 1..Len(s) : s[i] = Slash
    THEN CHOOSE i \in 1..Len(s) : s[i] = Slash /\ \A j \in 1..(i - 1) : s[j] /= Slash
  ELSE 0

----------------------------------------------------------------------------
(* Concurrent calls on one store *)

\* Two different plaintexts, of SmallLimit and SmallLimit + 1 bytes.
ConcurrentData ==
  {d \in DataChoices : d.isBuffer /\ Len(d.content) \in {SmallLimit, SmallLimit + 1}}

InitConcurrent ==
  /\ store = Construct(ConfigA).store
  /\ backend = [o \in Objects |-> None]
  /\ written = [o \in Objects |-> None]
  /\ last = NoCall
  /\ calls = [c \in Callers |-> IdleCall]

\* put up to its await: everything before s3Client.send returns runs without
\* interruption; a call that throws there is done at once.
StartPut(c) ==
  /\ calls[c].pc = "idle"
  /\ \E data \in ConcurrentData, iv \in Ivs :
       LET prep == PutPrepare(Get1(store), Some(PathBK), data, iv) IN
       calls' = [calls EXCEPT ![c] =
                   [IdleCall EXCEPT !.op = "put", !.path = Some(PathBK),
                                    !.data = Some(data), !.iv = iv,
                                    !.pc = IF prep.ok THEN "requested" ELSE "done",
                                    !.sent = IF prep.ok THEN Some(prep.body) ELSE None,
                                    !.outcome = IF prep.ok THEN Resolved(<<>>)
                                                ELSE Rejected(prep.error)]]
  /\ UNCHANGED <<store, backend, written, last>>

\* get up to its first await.
StartGet(c) ==
  /\ calls[c].pc = "idle"
  /\ LET parsed == parsePath(Some(PathBK)) IN
     calls' = [calls EXCEPT ![c] =
                 [IdleCall EXCEPT !.op = "get", !.path = Some(PathBK),
                                  !.pc = IF parsed.ok THEN "requested" ELSE "done",
                                  !.outcome = IF parsed.ok THEN Resolved(<<>>)
                                              ELSE Rejected(parsed.error)]]
  /\ UNCHANGED <<store, backend, written, last>>

\* The backend carries out, or fails, the PutObject request of call c.
BackendPut(c) ==
  /\ calls[c].op = "put" /\ calls[c].pc = "requested"
  /\ \E answer \in PutAnswers :
       LET object == ObjectOf(parsePath(calls[c].path))
           st == Get1(store) IN
       /\ backend' = IF IsSome(answer) THEN backend
                     ELSE [backend EXCEPT ![object] = calls[c].sent]
       /\ written' = IF IsSome(answer) THEN written
                     ELSE [written EXCEPT ![object] =
                             Some([plaintext |-> ToBuffer(Get1(calls[c].data)),
                                   primaryKey |-> st.primaryKey,
                                   key |-> st.keys[st.primaryKey], iv |-> calls[c].iv])]
       /\ calls' = [calls EXCEPT ![c].pc = "answered",
                                 ![c].response = IF IsSome(answer)
                                                   THEN ErrorResponse(Get1(answer))
                                                 ELSE NoResponse]
  /\ UNCHANGED <<store, last>>

\* The backend answers the GetObject request of call c from what it holds.
BackendGet(c) ==
  /\ calls[c].op = "get" /\ calls[c].pc = "requested"
  /\ \E response \in MapResponses(ObjectOf(parsePath(calls[c].path))) :
       calls' = [calls EXCEPT ![c].pc = "answered", ![c].response = response]
  /\ UNCHANGED <<store, backend, written, last>>

\* put resumes after its await and settles.
ResumePut(c) ==
  /\ calls[c].op = "put" /\ calls[c].pc = "answered"
  /\ calls' = [calls EXCEPT ![c].pc = "done",
                            ![c].outcome =
                               PutFinish(IF calls[c].response.kind = "error"
                                           THEN Some(calls[c].response.error)
                                         ELSE None)]
  /\ UNCHANGED <<store, backend, written, last>>

\* get resumes after its first await: a failed request goes to the catch
\* block; a response with a Body starts streamToBuffer, the second await.
ResumeGet(c) ==
  /\ calls[c].op = "get" /\ calls[c].pc = "answered"
  /\ calls' = [calls EXCEPT ![c].pc = IF calls[c].response.kind = "body"
                                        THEN "streaming" ELSE "done",
                            ![c].outcome =
                               IF calls[c].response.kind = "body" THEN Resolved(<<>>)
                               ELSE GetOutcome(Get1(store), calls[c].path,
                                               calls[c].response)]
  /\ UNCHANGED <<store, backend, written, last>>

\* The caller other than c.
OtherCaller(c) == CHOOSE d \in Callers : d /= c

\* A get that decodes whichever body arrived last at the store: the other
\* call's, when that call holds one.
FinishGet_SharedBody(c) ==
  /\ calls[c].op = "get" /\ calls[c].pc = "streaming"
  /\ LET other == calls[OtherCaller(c)]
         response == IF other.op = "get" /\ other.response.kind = "body"
                       THEN other.response ELSE calls[c].response IN
     calls' = [calls EXCEPT ![c].pc = "done",
                            ![c].outcome = GetOutcome(Get1(store), calls[c].path, response)]
  /\ UNCHANGED <<store, backend, written, last>>

\* The stream of call c ends: get parses and decrypts the body it received
\* and settles.
FinishGet(c) ==
  /\ calls[c].op = "get" /\ calls[c].pc = "streaming"
  /\ calls' = [calls EXCEPT ![c].pc = "done",
                            ![c].outcome = GetOutcome(Get1(store), calls[c].path,
                                                      calls[c].response)]
  /\ UNCHANGED <<store, backend, written, last>>

\* The caller takes the outcome of its call.
Return(c) ==
  /\ calls[c].pc = "done"
  /\ calls' = [calls EXCEPT ![c] = IdleCall]
  /\ UNCHANGED <<store, backend, written, last>>

NextConcurrent ==
  \/ \E c \in Callers : StartPut(c)
  \/ \E c \in Callers : StartGet(c)
  \/ \E c \in Callers : BackendPut(c)
  \/ \E c \in Callers : BackendGet(c)
  \/ \E c \in Callers : ResumePut(c)
  \/ \E c \in Callers : ResumeGet(c)
  \/ \E c \in Callers : FinishGet(c)
  \/ \E c \in Callers : Return(c)

SpecConcurrent == InitConcurrent /\ [][NextConcurrent]_vars

----------------------------------------------------------------------------
(* C19 *)

\* The body a put of data with nonce iv sends when it runs alone.
BodyAlone(data, iv) == PutPrepare(Get1(store), Some(PathBK), data, iv).body

\* C19: however the calls interleave, a finished get has the outcome of a get
\* run alone on the answer it received, a finished put sent the body and has
\* the outcome of a put run alone, and a get that resolves returns the whole
\* plaintext of one put, never a mixture.
C19_Interleaving ==
  \A c \in Callers :
    calls[c].pc = "done" =>
      /\ calls[c].op = "get" =>
           /\ calls[c].outcome
                = GetOutcome(Get1(store), calls[c].path, calls[c].response)
           /\ calls[c].outcome.kind = "resolved" =>
                \E data \in ConcurrentData, iv \in Ivs :
                  /\ calls[c].response.body = BodyAlone(data, iv)
                  /\ calls[c].outcome.value = ToBuffer(data)
      /\ calls[c].op = "put" =>
           /\ calls[c].sent = Some(BodyAlone(Get1(calls[c].data), calls[c].iv))
           /\ calls[c].outcome
                = PutFinish(IF calls[c].response.kind = "error"
                              THEN Some(calls[c].response.error) ELSE None)

\* Two gets ran at the same time and finished with different plaintexts.
C19_Witness ==
  /\ \A c \in Callers :
       calls[c].op = "get" /\ calls[c].pc = "done" /\ calls[c].outcome.kind = "resolved"
  /\ \E c, d \in Callers : calls[c].outcome.value /= calls[d].outcome.value

----------------------------------------------------------------------------
(* C20 *)

\* The body reads as an envelope (length byte, kid, 16-byte nonce, 16-byte
\* tag, ciphertext) whose kid selects a key of the store and whose tag is the
\* tag of its ciphertext under that key and nonce, and p is what that
\* ciphertext decrypts to.
AuthenticEnvelopeOf(st, body, p) ==
  /\ body /= <<>>
  /\ Len(body) >= 1 + body[1] + ivLength + authTagLength
  /\ LET n == body[1]
         kid == Utf8Decode(SubSeq(body, 2, 1 + n))
         iv == SubSeq(body, 2 + n, 1 + n + ivLength)
         tag == SubSeq(body, 2 + n + ivLength, 1 + n + ivLength + authTagLength)
         ct == SubSeq(body, 2 + n + ivLength + authTagLength, Len(body))
     IN /\ kid \in DOMAIN st.keys
        /\ tag = GcmTag(st.keys[kid], iv, ct)
        /\ GcmEncrypt(st.keys[kid], iv, p) = ct

----------------------------------------------------------------------------
(* C21 *)

\* The inputs of the last call pass the call's validation: the path parses
\* and, for put, the data is neither empty nor over the limit.
InputsPassValidation ==
  /\ LastPathValid
  /\ last.op = "put" =>
       validateInput(LastPlaintext, Get1(store).maxFileSize) = NoError

\* C21: a put, get or delete call sends at most one request to the backend,
\* and exactly one when its inputs pass validation, whether the request or
\* the decryption fails or not.
C21_NoRetries ==
  (IsSome(store) /\ last.op \in {"put", "get", "delete"}) =>
    /\ last.sent <= 1
    /\ last.sent = Len(last.requests)
    /\ InputsPassValidation => last.sent = 1

----------------------------------------------------------------------------
(* C22 *)

\* The part of key k that follows the prefix of the last list call.
BelowPrefix(k) == SubSeq(k, Len(parsePath(last.path).key) + 1, Len(k))

\* The names of the ".enc" objects of the bucket whose key starts with the
\* prefix of the last list call: at every depth, or immediate children only.
NamesUnder(immediate) ==
  {SubSeq(k, 1, Len(k) - Len(EncSuffix)) :
     k \in {x \in BucketKeys(backend, parsePath(last.path).bucket) :
              /\ StartsWith(x, parsePath(last.path).key)
              /\ EndsWith(x, EncSuffix)
              /\ immediate => ~HasSlash(BelowPrefix(x))}}

\* C22: with recursive = false every request of list carries Delimiter "/"
\* and, the backend honouring it, exactly the immediate children of the
\* prefix are returned; with recursive = true no request carries a delimiter
\* and the objects at every depth under the prefix are returned.
C22_RecursionFlag ==
  (IsSome(store) /\ last.op = "list" /\ LastPathValid) =>
    /\ last.sent >= 1
    /\ \A i \in 1..Len(last.requests) :
         last.requests[i].Delimiter =
           IF last.args.recursive THEN None ELSE Some(<<Slash>>)
    /\ ListedAll => ListedNames = NamesUnder(~last.args.recursive)

\* A non-recursive list over two pages returned the immediate children of
\* "d/" and left out the object one level deeper.
C22_Witness ==
  /\ ListedAll /\ ~last.args.recursive /\ last.sent = 2
  /\ C22_RecursionFlag
  /\ ListedNames /= {}
  /\ NamesUnder(FALSE) \ ListedNames /= {}

----------------------------------------------------------------------------
(* Paging: the loop of list, request by request, against any backend *)

\* The number of requests up to which one list call is followed.
MaxRequests == 3

\* Continuation tokens the backend hands out: "1" and "2".
Tokens == {<<49>>, <<50>>}

\* Contents of a response: undefined, one object of the store, or an entry
\* without Key followed by a foreign object and an object under "d/".
PageChoices ==
  {None,
   Some(<<Some(KeyK \o EncSuffix)>>),
   Some(<<None, Some(<<100, 47, 120>>), Some(<<100, 47, 121>> \o EncSuffix)>>)}

\* The outcome of a call whose promise has not settled.
Pending == [kind |-> "pending", value |-> <<>>, error |-> NoError]

InitPaging ==
  /\ store = Construct(ConfigA).store
  /\ backend = [o \in NameObjects |-> None]
  /\ written = [o \in NameObjects |-> None]
  /\ last = NoCall
  /\ calls = [c \in Callers |-> IdleCall]

\* list(path, offset, limit, recursive) up to its first await: rejected for an
\* invalid path, or the first request sent, without a continuation token.
StartList ==
  /\ Idle
  /\ \E path \in {PathOf(BucketB, <<100>>), Some(PathInvalid)},
        window \in {<<0, DefaultLimit>>, <<1, 1>>}, recursive \in BOOLEAN :
       LET parsed == parsePath(path) IN
       last' = [NoCall EXCEPT
                  !.op = "list", !.path = path,
                  !.args = [offset |-> window[1], limit |-> window[2],
                            recursive |-> recursive],
                  !.outcome = IF parsed.ok THEN Pending ELSE Rejected(parsed.error),
                  !.sent = IF parsed.ok THEN 1 ELSE 0,
                  !.requests = IF parsed.ok
                                 THEN <<ListRequest(parsed.bucket, parsed.key,
                                                    recursive, None)>>
                               ELSE <<>>]
  /\ UNCHANGED <<store, backend, written, calls>>

\* A list call waits for the answer to the request it sent last.
Awaiting ==
  /\ last.op = "list" /\ last.outcome = Pending
  /\ Len(last.responses) < Len(last.requests)

\* The backend answers with a page and a token for the next one.
AnswerMore ==
  /\ Awaiting
  /\ Len(last.requests) < MaxRequests
  /\ \E contents \in PageChoices, token \in Tokens :
       last' = [last EXCEPT !.responses = Append(@, ListPage(contents, Some(token)))]
  /\ UNCHANGED <<store, backend, written, calls>>

\* The backend answers with a page and no token.
AnswerLast ==
  /\ Awaiting
  /\ \E contents \in PageChoices :
       last' = [last EXCEPT !.responses = Append(@, ListPage(contents, None))]
  /\ UNCHANGED <<store, backend, written, calls>>

\* The request fails.
AnswerFailure ==
  /\ Awaiting
  /\ last' = [last EXCEPT !.responses = Append(@, ListFailure(GenericFailure))]
  /\ UNCHANGED <<store, backend, written, calls>>

\* list after an await: the catch block for a failed request; otherwise the
\* names of the page are gathered and, as the response's token tells, the
\* next request is sent or the window of the names is returned.
ResumeList ==
  /\ last.op = "list" /\ last.outcome = Pending
  /\ Len(last.responses) = Len(last.requests)
  /\ LET response == last.responses[Len(last.responses)]
         parsed == parsePath(last.path)
         keys == IF IsSome(response.Contents) THEN PageNames(Get1(response.Contents))
                 ELSE <<>>
         gathered == last.allKeys \o keys
     IN last' =
          IF response.kind = "error"
            THEN [last EXCEPT
                    !.response = ErrorResponse(response.error),
                    !.outcome = Rejected(S3Error("S3 ListObjectsV2 failed: ",
                                                 response.error.text))]
          ELSE IF TokenTruthy(response.NextContinuationToken)
            THEN [last EXCEPT
                    !.allKeys = gathered,
                    !.sent = @ + 1,
                    !.requests = Append(@, ListRequest(parsed.bucket, parsed.key,
                                                       last.args.recursive,
                                                       response.NextContinuationToken))]
          ELSE [last EXCEPT
                  !.allKeys = gathered,
                  !.outcome = Resolved(ArraySlice(gathered, last.args.offset,
                                                  last.args.offset + last.args.limit))]
  /\ UNCHANGED <<store, backend, written, calls>>

\* The caller takes the outcome of a call that has settled.
ReturnList == last.outcome /= Pending /\ Settle

NextPaging ==
  \/ StartList
  \/ AnswerMore
  \/ AnswerLast
  \/ AnswerFailure
  \/ ResumeList
  \/ ReturnList

\* The event loop resumes list once its request is answered, and the backend
\* does not withhold a last page for ever.
SpecPaging ==
  InitPaging /\ [][NextPaging]_vars /\ WF_vars(ResumeList) /\ SF_vars(AnswerLast)

----------------------------------------------------------------------------
(* C23 *)

\* The names of the pages of a sequence of responses, in order.
RECURSIVE NamesOfPages(_)
NamesOfPages(responses) ==
  IF responses = <<>> THEN <<>>
  ELSE (IF IsSome(Head(responses).Contents)
          THEN PageNames(Get1(Head(responses).Contents)) ELSE <<>>)
         \o NamesOfPages(Tail(responses))

ListUnderWay == last.op = "list" /\ last.outcome = Pending

\* The responses list has taken in: all but one it has not resumed on.
TakenIn ==
  IF last.outcome.kind = "resolved" THEN last.responses
  ELSE SubSeq(last.responses, 1, Len(last.requests) - 1)

\* The first request carries no token, each later one the token of the
\* response before it; no request follows a response without a token, and
\* list resolves on such a response; the names gathered are those of the
\* pages taken in, in the order received.
C23_Chained ==
  (last.op = "list" /\ LastPathValid) =>
    /\ last.requests[1].ContinuationToken = None
    /\ \A i \in 2..Len(last.requests) :
         /\ last.responses[i - 1].kind = "page"
         /\ IsSome(last.responses[i - 1].NextContinuationToken)
         /\ last.requests[i].ContinuationToken =
              last.responses[i - 1].NextContinuationToken
    /\ Len(last.responses) <= Len(last.requests)
    /\ (/\ Len(last.responses) = Len(last.requests)
        /\ last.outcome /= Pending
        /\ last.responses[Len(last.responses)].kind = "page")
         => /\ last.responses[Len(last.responses)].NextContinuationToken = None
            /\ last.outcome.kind = "resolved"
    /\ last.outcome.kind = "resolved" =>
         /\ Len(last.responses) = Len(last.requests)
         /\ last.responses[Len(last.responses)].kind = "page"
    /\ last.allKeys = NamesOfPages(TakenIn)

\* C23: list sends its first request without a continuation token and each
\* later one with the token of the previous response, stops at the first
\* response without one and has gathered the names of all pages in the order
\* received; a list call under way settles once the backend returns a
\* response without a token.
C23_Pagination == []C23_Chained /\ (ListUnderWay ~> ~ListUnderWay)

\* A list call resolved after three requests whose pages all held names.
C23_Witness ==
  /\ last.op = "list" /\ last.outcome.kind = "resolved"
  /\ last.sent = MaxRequests /\ Len(last.responses) = MaxRequests
  /\ \A i \in 1..Len(last.responses) :
       NamesOfPages(<<last.responses[i]>>) /= <<>>
  /\ last.responses[1].Contents /= last.responses[2].Contents
  /\ C23_Chained

----------------------------------------------------------------------------
(* C24 *)

\* The number of elements of a sequence of n elements at positions
\* offset .. offset + limit - 1, counted from 0.
WindowLength(n, offset, limit) ==
  IF offset >= n THEN 0
  ELSE IF n - offset < limit THEN n - offset ELSE limit

\* C24: for offset >= 0 and limit >= 0 list resolves with the elements at
\* positions offset .. offset + limit - 1 of the names gathered from all
\* pages: at most limit of them, none when offset is at or past the end, and
\* cut from the names of every page up to the one without a token.
C24_Window ==
  (ListResolved /\ last.args.offset >= 0 /\ last.args.limit >= 0) =>
    LET result == last.outcome.value
        offset == last.args.offset
    IN /\ Len(result) = WindowLength(Len(last.allKeys), offset, last.args.limit)
       /\ \A i \in 1..Len(result) : result[i] = last.allKeys[offset + i]
       /\ Len(result) <= last.args.limit
       /\ offset >= Len(last.allKeys) => result = <<>>
       /\ last.allKeys = NamesOfPages(last.responses)
       /\ last.allKeys = StrippedEncKeys(last.requests[1])
       /\ last.responses[Len(last.responses)].NextContinuationToken = None

\* A list over two pages gathered three names and resolved with the second
\* of them alone.
C24_Witness ==
  /\ ListResolved /\ last.sent = 2
  /\ last.args.offset = 1 /\ last.args.limit = 1
  /\ Len(last.allKeys) = 3
  /\ last.outcome.value = <<last.allKeys[2]>>
  /\ last.allKeys[1] /= last.allKeys[2]

----------------------------------------------------------------------------
(* C25 *)

\* A step is a call of put, get, delete or list that rejects with
\* ValidationError.
RejectsInvalid ==
  /\ last.op = "none"
  /\ last'.op \in {"put", "get", "delete", "list"}
  /\ last'.outcome.kind = "rejected"
  /\ last'.outcome.error.name = "ValidationError"

\* C25: a call that rejects with ValidationError (put for an invalid path,
\* empty data or oversized data; get, delete and list for an invalid path)
\* has sent no request, and the backend holds what it held before the call.
C25_ValidationBeforeIO ==
  [][RejectsInvalid =>
       /\ last'.sent = 0 /\ last'.requests = <<>>
       /\ backend' = backend
       /\ (last'.op = "put" /\ parsePath(last'.path).ok)
            \/ ~parsePath(last'.path).ok]_vars

\* put of oversized data on a valid path was rejected with ValidationError
\* while the backend held the object of an earlier put on that path.
C25_Witness ==
  /\ IsSome(store) /\ last.op = "put" /\ LastPathValid
  /\ RejectedWith("ValidationError")
  /\ Get1(store).maxFileSize = SmallLimit
  /\ Len(LastPlaintext) > SmallLimit
  /\ last.sent = 0
  /\ IsSome(backend[LastObject])

----------------------------------------------------------------------------
(* C26 *)

\* The last call was a get that rejected.
GetRejected == IsSome(store) /\ last.op = "get" /\ last.outcome.kind = "rejected"

\* The request or the stream of the last get failed with an error named name.
BackendErrorNamed(name) ==
  /\ last.response.kind \in {"error", "streamError"}
  /\ last.response.error.name = name

\* The body returned to the last get names a kid the store has no key for.
UnknownKidReturned ==
  /\ last.response.kind = "body"
  /\ EmbeddedKid(last.response.body) \notin DOMAIN Get1(store).keys

----------------------------------------------------------------------------
(* C27 *)

\* C27: byte 0 of the body a resolved put stored is the UTF-8 byte length of
\* primaryKey, and the kid get reads from that body is primaryKey and selects
\* the key put encrypted with.
C27_KidFraming ==
  PutResolved =>
    LET body == Get1(backend[LastObject])
        st == Get1(store)
    IN /\ body[1] = Len(Utf8Encode(st.primaryKey))
       /\ Utf8Decode(Slice(body, 1, 1 + KidLengthOf(body))) = st.primaryKey
       /\ KeyOf(st, Utf8Decode(Slice(body, 1, 1 + KidLengthOf(body))))
            = Some(Get1(written[LastObject]).key)

----------------------------------------------------------------------------
(* C28 *)

\* The limit a configuration asks for: the value supplied, or 104857600.
RequestedLimit(config) ==
  IF IsSome(config.maxFileSize) THEN Get1(config.maxFileSize) ELSE 104857600

\* C28: the store's size limit is 104857600 (100 * 1024 * 1024) when
\* maxFileSize is omitted and the supplied number otherwise, and data passes
\* the store's validation exactly when its length is between 1 and that limit.
C28_SizeLimit ==
  (last.op = "construct" /\ IsSome(store)) =>
    LET limit == RequestedLimit(Get1(last.config)) IN
    /\ Get1(store).maxFileSize = limit
    /\ \A d \in DataChoices :
         (validateInput(ToBuffer(d), Get1(store).maxFileSize) = NoError)
           <=> (1 <= Len(ToBuffer(d)) /\ Len(ToBuffer(d)) <= limit)

----------------------------------------------------------------------------
(* C29 *)

\* The body with its kid field, length byte included, replaced by kid.
ReKid(body, kid) ==
  <<Len(Utf8Encode(kid))>> \o Utf8Encode(kid) \o SubSeq(body, 2 + body[1], Len(body))

\* Kids a body is rewritten to: "v1", "v2" and one no store has a key for.
OtherKids == {V1, V2, KidAccent}

\* The last get was answered with a body that holds a whole kid field.
GotFramedBody ==
  /\ GotBody /\ LastPathValid
  /\ Len(last.response.body) >= 1
  /\ Len(last.response.body) >= 1 + last.response.body[1]

\* C29: a body that differs from the one the last get was given in its kid
\* field alone makes get give the same result when both kids map to equal
\* key bytes in the store's keys, and makes get reject with DecryptionError
\* when its kid is not in the keys.
C29_KidOnlySelects ==
  GotFramedBody =>
    LET st == Get1(store)
        kid == EmbeddedKid(last.response.body)
    IN \A other \in OtherKids :
         LET outcome == GetOutcome(st, last.path,
                                   BodyResponse(ReKid(last.response.body, other)))
         IN /\ (/\ kid \in DOMAIN st.keys /\ other \in DOMAIN st.keys
                /\ st.keys[kid] = st.keys[other])
                 => outcome = last.outcome
            /\ other \notin DOMAIN st.keys =>
                 outcome = Rejected(DecryptionError("No secret key found for KID: ",
                                                    other))

\* The store maps "v1" and "v2" to the same key bytes, and get resolved with
\* the plaintext for the stored body and for the body renamed to the other
\* kid.
C29_Witness ==
  /\ GotFramedBody /\ GotStoredBody
  /\ last.outcome = Resolved(Get1(written[LastObject]).plaintext)
  /\ {V1, V2} \subseteq DOMAIN Get1(store).keys
  /\ Get1(store).keys[V1] = Get1(store).keys[V2]
  /\ \E other \in {V1, V2} :
       /\ other /= EmbeddedKid(last.response.body)
       /\ GetOutcome(Get1(store), last.path,
                     BodyResponse(ReKid(last.response.body, other))) = last.outcome

----------------------------------------------------------------------------
(* C30 *)

\* The valid paths among the short strings and the paths of the bucket.
ValidPaths == {p \in PathInputs \cup NamePaths : parsePath(p).ok}

\* Distinct valid paths address distinct objects.
ParsePathInjective ==
  \A p, q \in ValidPaths :
    ObjectOf(parsePath(p)) = ObjectOf(parsePath(q)) => p = q

\* get on a valid path, answered by the backend with what it holds, resolves
\* with the plaintext of the last successful put on that path.
ReadsLastPut ==
  (IsSome(store) /\ last.op = "get" /\ LastPathValid
     /\ last.response = HonestResponse(LastObject)
     /\ IsSome(written[LastObject]))
    => /\ last.outcome = Resolved(Get1(written[LastObject]).plaintext)
       /\ last.requests = <<ObjectRequest(LastObject)>>

\* A put or delete on a valid path leaves every object but the one of its
\* own path as it was, those of every other valid path included.
OtherObjectsKept ==
  (last.op = "none" /\ last'.op \in {"put", "delete"} /\ parsePath(last'.path).ok) =>
    /\ \A o \in DOMAIN backend \ {ObjectOf(parsePath(last'.path))} :
         backend'[o] = backend[o] /\ written'[o] = written[o]
    /\ \A q \in NamePaths \ {last'.path} :
         parsePath(q).ok =>
           backend'[ObjectOf(parsePath(q))] = backend[ObjectOf(parsePath(q))]

\* C30: the mapping from a valid path to (bucket, key + ".enc") is injective;
\* a put or delete on a path changes the object of no other path; and get
\* on a path returns the plaintext of the last successful put on it.
C30_PathIsolation ==
  [](ParsePathInjective /\ ReadsLastPut) /\ [][OtherObjectsKept]_vars

\* get on one path resolved with what was put there while the object of the
\* other path, written by another put, holds a different body.
C30_Witness ==
  /\ IsSome(store) /\ last.op = "get" /\ LastPathValid
  /\ IsSome(written[LastObject])
  /\ last.outcome = Resolved(Get1(written[LastObject]).plaintext)
  /\ \E q \in NamePaths \ {last.path} :
       /\ parsePath(q).ok
       /\ IsSome(written[ObjectOf(parsePath(q))])
       /\ backend[ObjectOf(parsePath(q))] /= backend[LastObject]

====
